---- MODULE Spec2Model ----
(***************************************************************************)
(* Campaign scheduling and trigger-evaluation engine of the marketing      *)
(* automation backend: app/services/campaign_scheduler.py (the             *)
(* CampaignScheduler service and TriggerConfigurationService), driven by   *)
(* the HTTP handlers of app/api/scheduling.py and app/api/campaigns.py.    *)
(*                                                                         *)
(* Time is counted in ticks of TickSeconds seconds.  Every handler runs on *)
(* one asyncio event loop, so a handler is atomic up to its first real     *)
(* suspension point; the only one in the runner is the sleep that stands   *)
(* for the campaign action (campaign_scheduler.py:340).                    *)
(***************************************************************************)
EXTENDS Integers, Sequences, FiniteSets, TLC

\* ------------------------------------------------------------------ bounds
MaxCampaigns == 2
MaxUsers == 1
MaxExecutions == 3
MaxTime == 2
MaxSteps == 4
MaxInterval == 2
MaxOwned == 51
MaxPolls == 2
MaxErrors == 10
MaxAdvances == 2

CampaignIds == 1..MaxCampaigns
UserIds == 1..MaxUsers
Times == 0..MaxTime

\* -------------------------------------------------------- program constants
misfire_grace_time == 30
TickSeconds == 2 * misfire_grace_time
default_max_instances == 3
job_max_instances == 1
condition_poll_minutes == 5
metric_value == 0

SCHEDULER_JOB_DEFAULTS ==
    [coalesce |-> FALSE, max_instances |-> default_max_instances,
     misfire_grace_time |-> misfire_grace_time]

CampaignStatus == {"draft", "scheduled", "active", "paused", "completed", "failed"}
TriggerType == {"manual", "scheduled", "recurring", "webhook", "event", "condition"}

PRICING_TIERS == [basic |-> 10, pro |-> 50, enterprise |-> -1]

\* ------------------------------------------------------------ dictionaries
\* A trigger configuration is a dict: a record whose domain is the set of
\* keys present.  Has/Truthy model dict.get(key) and its truth value.
Has(d, k) == k \in DOMAIN d

TruthyStr(d, k) == Has(d, k) /\ d[k] # ""

TruthyInt(d, k) == Has(d, k) /\ d[k] # 0

TruthySeq(d, k) == Has(d, k) /\ Len(d[k]) > 0

\* ------------------------------------------------- request inputs (bounded)
CronEveryMinute == <<"*", "*", "*", "*", "*">>
CronThreeFields == <<"*", "*", "*">>

CondFail == [type |-> "metric_threshold", metric |-> "clicks", threshold |-> 5, operator |-> "gte"]

CfgManual == [type |-> "manual"]
CfgEvent == [type |-> "event", event_name |-> "signup"]
CfgWebhook == [type |-> "webhook"]
CfgScheduled(t) == [type |-> "scheduled", run_at |-> [iso |-> TRUE, at |-> t]]
CfgBadDate == [type |-> "scheduled", run_at |-> [iso |-> FALSE, at |-> 0]]
CfgInterval(unit, v) == [type |-> "recurring", interval_type |-> unit, interval_value |-> v]
CfgCron(expr) == [type |-> "recurring", interval_type |-> "cron", cron_expression |-> expr]
CfgCondition(cs) == [type |-> "condition", conditions |-> cs, evaluation_interval |-> 5]
CfgNoType == [created_at |-> 0]

EmptyDict == [k \in {} |-> TRUE]

\* The configurations of the schedule requests: one of each kind that takes
\* its own path through the endpoint within MaxTime ticks.  The validator and
\* the conflict checker are called on their full input sets further down.
RequestConfigs ==
    { CfgManual, CfgEvent, CfgWebhook, CfgScheduled(1),
      CfgInterval("minutes", 1), CfgCron(CronEveryMinute), CfgCron(CronThreeFields),
      CfgNoType }

UpdateStatuses == {"active", "paused"}
ExceptionTexts == {"boom"}

\* ---------------------------------------- TriggerConfigurationService
\* validate_trigger_config that goes on to the enum conversion after the
\* missing-type error instead of returning
validate_trigger_config_noreturn(cfg) ==
    IF ~TruthyStr(cfg, "type")
    THEN <<"Trigger type is required", "Invalid trigger type: None">>
    ELSE IF cfg.type \notin TriggerType THEN <<"Invalid trigger type: " \o cfg.type>>
    ELSE << >>

IntervalTypes == {"minutes", "hours", "days", "weeks", "cron"}

ConditionErrors(conditions) ==
    LET bad == SelectSeq([i \in 1..Len(conditions) |-> i],
                         LAMBDA i : ~TruthyStr(conditions[i], "type"))
    IN [n \in 1..Len(bad) |->
            "Condition " \o ToString(bad[n] - 1) \o ": type is required"]

validate_trigger_config(cfg) ==
    IF ~TruthyStr(cfg, "type") THEN <<"Trigger type is required">>
    ELSE IF cfg.type \notin TriggerType THEN <<"Invalid trigger type: " \o cfg.type>>
    ELSE IF cfg.type = "scheduled" THEN
        IF ~Has(cfg, "run_at") THEN <<"run_at is required for scheduled triggers">>
        ELSE IF ~cfg.run_at.iso THEN <<"Invalid run_at format">>
        ELSE << >>
    ELSE IF cfg.type = "recurring" THEN
        LET e1 == IF ~TruthyStr(cfg, "interval_type")
                  THEN <<"interval_type is required for recurring triggers">>
                  ELSE IF cfg.interval_type \notin IntervalTypes
                  THEN <<"Invalid interval_type: " \o cfg.interval_type>>
                  ELSE << >>
            e2 == IF Has(cfg, "interval_type") /\ cfg.interval_type = "cron"
                  THEN IF ~TruthySeq(cfg, "cron_expression")
                       THEN <<"cron_expression is required for cron triggers">>
                       ELSE << >>
                  ELSE IF ~TruthyInt(cfg, "interval_value")
                       THEN <<"interval_value is required for recurring triggers">>
                       ELSE << >>
        IN e1 \o e2
    ELSE IF cfg.type = "event" THEN
        IF ~TruthyStr(cfg, "event_name")
        THEN <<"event_name is required for event triggers">>
        ELSE << >>
    ELSE IF cfg.type = "condition" THEN
        LET conditions == IF Has(cfg, "conditions") THEN cfg.conditions ELSE << >>
            e1 == IF Len(conditions) = 0
                  THEN <<"At least one condition is required for conditional triggers">>
                  ELSE << >>
        IN e1 \o ConditionErrors(conditions)
    ELSE << >>

\* ------------------------------------------------------ APScheduler triggers
\* A trigger is [kind, run_date, interval]: a DateTrigger fires once at
\* run_date; an IntervalTrigger fires at run_date (its start date) and then
\* every interval ticks; a CronTrigger built from "* * * * *" fires at every
\* minute boundary.
NoTrigger == [kind |-> "none", run_date |-> 0, interval |-> 0]

UnitSeconds(unit) ==
    CASE unit = "minutes" -> 60
      [] unit = "hours" -> 3600
      [] unit = "days" -> 86400
      [] unit = "weeks" -> 604800

IntervalTrigger(unit, value, t) ==
    LET ticks == (value * UnitSeconds(unit)) \div TickSeconds
    IN [kind |-> "interval", run_date |-> t + ticks, interval |-> ticks]

\* an IntervalTrigger starting at run_at where the DateTrigger belongs
DateTrigger_repeating(run_at) == [kind |-> "interval", run_date |-> run_at, interval |-> 1]

DateTrigger(run_at) == [kind |-> "date", run_date |-> run_at, interval |-> 0]

CronFieldOk(f) == f \in {"*", "0", "1"}

from_crontab_ok(expr) ==
    /\ Len(expr) = 5
    /\ \A i \in 1..Len(expr) : CronFieldOk(expr[i])

CronTrigger(expr, t) == [kind |-> "cron", run_date |-> t + 1, interval |-> 1]

\* get_next_fire_time(previous_fire_time, now) of the three trigger classes;
\* -1 stands for None (the trigger is exhausted).
NoTime == 0 - 1

get_next_fire_time(trigger, previous) ==
    IF trigger.kind = "date"
    THEN IF previous = NoTime THEN trigger.run_date ELSE NoTime
    ELSE IF previous = NoTime THEN trigger.run_date
    ELSE previous + trigger.interval

\* -------------------------------------------------------------------- state
VARIABLES
    campaigns,    \* campaigns table: id -> row, or NoCampaign
    jobs,         \* the scheduler's job store: a set of jobs
    instances,    \* executor's count of running instances per job id
    executions,   \* campaign_executions table: a sequence, id = index
    runs,         \* runner coroutines suspended in the campaign action
    now,          \* the clock, in ticks
    last,         \* the last request or scheduler step and its outcome
    steps,        \* HTTP requests handled plus clock ticks so far
    probe,        \* a direct call of a service function: its arguments and result
    scheduler_state   \* the AsyncIOScheduler's state: "running" or "stopped"

vars == <<campaigns, jobs, instances, executions, runs, now, last, steps,
          probe, scheduler_state>>

NoProbe == [fn |-> "none"]

NoCampaign == [user_id |-> 0, status |-> "none", trigger_type |-> "none",
               trigger_config |-> EmptyDict, config |-> EmptyDict]

Exists(c) == campaigns[c].user_id # 0

\* No user has a subscription: billing is an external collaborator.
subscriptions == [u \in UserIds |-> "none"]

\* ----------------------------------------------------------- the job store
JobId(c) == <<"campaign", c>>

get_job(js, id) == {j \in js : j.id = id}

remove_job(js, id) == {j \in js : j.id # id}

\* add_job(..., replace_existing=True)
add_job(js, job) == {j \in js : j.id # job.id} \cup {job}

\* add_job without the per-job max_instances and coalesce arguments
Job_defaults(c, trigger, cfg) ==
    [id |-> JobId(c), trigger |-> trigger, args |-> cfg,
     next_run_time |-> get_next_fire_time(trigger, NoTime),
     max_instances |-> SCHEDULER_JOB_DEFAULTS.max_instances,
     coalesce |-> SCHEDULER_JOB_DEFAULTS.coalesce,
     misfire_grace_time |-> SCHEDULER_JOB_DEFAULTS.misfire_grace_time]

Job(c, trigger, cfg) ==
    [id |-> JobId(c), trigger |-> trigger, args |-> cfg,
     next_run_time |-> get_next_fire_time(trigger, NoTime),
     max_instances |-> job_max_instances, coalesce |-> TRUE,
     misfire_grace_time |-> SCHEDULER_JOB_DEFAULTS.misfire_grace_time]

\* ------------------------------------------------------- CampaignScheduler
\* The trigger schedule_campaign builds for a configuration, or the error it
\* raises, or nothing for the kinds that are not scheduled.
BuildTrigger(cfg, t) ==
    IF ~Has(cfg, "type") \/ cfg.type \notin TriggerType
    THEN [ret |-> "raised", trigger |-> NoTrigger]
    ELSE IF cfg.type = "manual" THEN [ret |-> "None", trigger |-> NoTrigger]
    ELSE IF cfg.type = "scheduled" THEN
        IF Has(cfg, "run_at") /\ cfg.run_at.iso
        THEN [ret |-> "job", trigger |-> DateTrigger(cfg.run_at.at)]
        ELSE [ret |-> "raised", trigger |-> NoTrigger]
    ELSE IF cfg.type = "recurring" THEN
        LET interval_value == IF Has(cfg, "interval_value") THEN cfg.interval_value ELSE 1
        IN IF Has(cfg, "interval_type") /\ cfg.interval_type \in {"minutes", "hours", "days", "weeks"}
           THEN [ret |-> "job", trigger |-> IntervalTrigger(cfg.interval_type, interval_value, t)]
           ELSE IF Has(cfg, "interval_type") /\ cfg.interval_type = "cron"
           THEN IF Has(cfg, "cron_expression") /\ from_crontab_ok(cfg.cron_expression)
                THEN [ret |-> "job", trigger |-> CronTrigger(cfg.cron_expression, t)]
                ELSE [ret |-> "raised", trigger |-> NoTrigger]
           ELSE [ret |-> "raised", trigger |-> NoTrigger]
    ELSE IF cfg.type = "event" THEN [ret |-> "None", trigger |-> NoTrigger]
    ELSE IF cfg.type = "condition"
    THEN [ret |-> "job", trigger |-> IntervalTrigger("minutes", condition_poll_minutes, t)]
    ELSE [ret |-> "raised", trigger |-> NoTrigger]

\* schedule_campaign that registers the job before the trigger is built
schedule_campaign_partial(js, c, cfg, t) ==
    LET built == BuildTrigger(cfg, t)
    IN [ret |-> built.ret,
        jobs |-> IF built.ret = "None" THEN remove_job(js, JobId(c))
                 ELSE add_job(js, Job(c, built.trigger, cfg))]

\* schedule_campaign that adds without removing or replacing
schedule_campaign_dup(js, c, cfg, t) ==
    LET built == BuildTrigger(cfg, t)
    IN [ret |-> built.ret,
        jobs |-> IF built.ret = "job" THEN js \cup {Job(c, built.trigger, cfg)} ELSE js]

schedule_campaign(js, c, cfg, t) ==
    LET removed == IF get_job(js, JobId(c)) # {} THEN remove_job(js, JobId(c)) ELSE js
        built == BuildTrigger(cfg, t)
    IN [ret |-> built.ret,
        jobs |-> IF built.ret = "job"
                 THEN add_job(removed, Job(c, built.trigger, cfg))
                 ELSE removed]

\* unschedule_campaign that forgets to remove the job
unschedule_campaign_noop(js, c) == js

unschedule_campaign(js, c) ==
    IF get_job(js, JobId(c)) # {} THEN remove_job(js, JobId(c)) ELSE js

get_scheduled_campaigns(js) ==
    { [campaign_id |-> j.id[2], job_id |-> j.id,
       next_run_time |-> j.next_run_time, trigger |-> j.trigger] :
      j \in {k \in js : k.id[1] = "campaign"} }

\* _check_schedule_overlap that compares the interval_type only
_check_schedule_overlap_typeonly(trigger1, trigger2) ==
    /\ Has(trigger1, "type") /\ trigger1.type = "recurring"
    /\ Has(trigger2, "type") /\ trigger2.type = "recurring"
    /\ Has(trigger1, "interval_type") = Has(trigger2, "interval_type")
    /\ Has(trigger1, "interval_type") => trigger1.interval_type = trigger2.interval_type

_check_schedule_overlap(trigger1, trigger2) ==
    /\ Has(trigger1, "type") /\ trigger1.type = "recurring"
    /\ Has(trigger2, "type") /\ trigger2.type = "recurring"
    /\ Has(trigger1, "interval_type") = Has(trigger2, "interval_type")
    /\ Has(trigger1, "interval_type") => trigger1.interval_type = trigger2.interval_type
    /\ Has(trigger1, "interval_value") = Has(trigger2, "interval_value")
    /\ Has(trigger1, "interval_value") => trigger1.interval_value = trigger2.interval_value

\* the quota test with > where the code has >=
campaign_limit_conflicts_offbyone(camps, subs, u) ==
    LET campaign_limit == IF subs[u] = "none" THEN -1 ELSE PRICING_TIERS[subs[u]]
        active_campaigns == Cardinality({o \in DOMAIN camps :
                               camps[o].user_id = u /\ camps[o].status = "active"})
    IN IF subs[u] # "none" /\ campaign_limit # -1 /\ active_campaigns > campaign_limit
       THEN {[kind |-> "Campaign limit reached", n |-> campaign_limit]}
       ELSE {}

\* the quota test with the default limit 0 for an owner without subscription
campaign_limit_conflicts_nosub(camps, subs, u) ==
    LET campaign_limit == IF subs[u] = "none" THEN 0 ELSE PRICING_TIERS[subs[u]]
        active_campaigns == Cardinality({o \in DOMAIN camps :
                               camps[o].user_id = u /\ camps[o].status = "active"})
    IN IF campaign_limit # -1 /\ active_campaigns >= campaign_limit
       THEN {[kind |-> "Campaign limit reached", n |-> campaign_limit]}
       ELSE {}

\* The quota part of check_scheduling_conflicts; subs[u] is the tier of the
\* owner's active subscription, or "none".
campaign_limit_conflicts(camps, subs, u) ==
    LET campaign_limit == IF subs[u] = "none" THEN -1 ELSE PRICING_TIERS[subs[u]]
        active_campaigns == Cardinality({o \in DOMAIN camps :
                               camps[o].user_id = u /\ camps[o].status = "active"})
    IN IF subs[u] # "none" /\ campaign_limit # -1 /\ active_campaigns >= campaign_limit
       THEN {[kind |-> "Campaign limit reached", n |-> campaign_limit]}
       ELSE {}

\* The overlap part: the other Active campaigns of the owner whose stored
\* trigger overlaps the proposed one.
overlap_conflicts(camps, c, cfg) ==
    LET others == IF Has(cfg, "type") /\ cfg.type \in {"scheduled", "recurring"}
                  THEN {o \in DOMAIN camps :
                           /\ camps[o].user_id = camps[c].user_id
                           /\ o # c
                           /\ camps[o].status = "active"
                           /\ Has(camps[o].config, "trigger")
                           /\ _check_schedule_overlap(cfg, camps[o].config.trigger)}
                  ELSE {}
    IN {[kind |-> "Schedule overlaps with campaign", n |-> o] : o \in others}

\* The conflicts check_scheduling_conflicts reports, as a set of messages.
check_scheduling_conflicts(camps, subs, c, cfg) ==
    IF camps[c].user_id = 0 THEN {[kind |-> "Campaign not found", n |-> 0]}
    ELSE campaign_limit_conflicts(camps, subs, camps[c].user_id)
            \cup overlap_conflicts(camps, c, cfg)

\* ------------------------------------------------------------ the runner
ConditionHolds(condition, hour) ==
    IF ~Has(condition, "type") THEN TRUE
    ELSE IF condition.type = "metric_threshold" THEN
        LET operator == IF Has(condition, "operator") THEN condition.operator ELSE "gte"
        IN /\ ~(operator = "gte" /\ metric_value < condition.threshold)
           /\ ~(operator = "lte" /\ metric_value > condition.threshold)
           /\ ~(operator = "eq" /\ metric_value # condition.threshold)
    ELSE IF condition.type = "time_window"
    THEN condition.start_time <= hour /\ hour < condition.end_time
    ELSE TRUE

_evaluate_conditions(conditions, hour) ==
    \A i \in 1..Len(conditions) : ConditionHolds(conditions[i], hour)

CurrentHour(t) == ((t * TickSeconds) \div 3600) % 24

\* _execute_campaign without the status re-check
RunnerGate_nocheck(camps, c, cfg, t) ==
    IF camps[c].user_id = 0 THEN "not_found" ELSE "run"

\* What _execute_campaign decides before it creates the execution record.
RunnerGate(camps, c, cfg, t) ==
    IF camps[c].user_id = 0 THEN "not_found"
    ELSE IF camps[c].status # "active" THEN "not_active"
    ELSE IF Has(cfg, "type") /\ cfg.type = "condition"
            /\ ~_evaluate_conditions(IF Has(cfg, "conditions") THEN cfg.conditions ELSE << >>,
                                     CurrentHour(t))
    THEN "conditions_not_met"
    ELSE "run"

NewExecution(c, triggered_by, t) ==
    [campaign_id |-> c, triggered_by |-> triggered_by, status |-> "pending",
     started_at |-> t, completed_at |-> NoTime, error_message |-> "",
     result_summary |-> "none"]

\* a runner that goes to the campaign action without marking the record
MarkRunning_skipped(e, t) == e

\* _run_campaign_execution up to the campaign action
MarkRunning(e, t) == [e EXCEPT !.status = "running", !.started_at = t]

\* _run_campaign_execution after the campaign action returned
MarkCompleted(e, t) ==
    [e EXCEPT !.status = "completed", !.completed_at = t, !.result_summary = "posts_created=1"]

\* the except branch without the error message and the completion stamp
MarkFailed_bare(e, text, t) == [e EXCEPT !.status = "failed"]

\* _run_campaign_execution when the campaign action raised
MarkFailed(e, text, t) ==
    [e EXCEPT !.status = "failed", !.error_message = text, !.completed_at = t]

\* _execute_campaign from its call to the suspension in the campaign action:
\* the executions table afterwards.
_execute_campaign(exs, camps, c, cfg, t) ==
    IF RunnerGate(camps, c, cfg, t) = "run"
    THEN Append(exs, MarkRunning(NewExecution(c, cfg.type, t), t))
    ELSE exs

\* ------------------------------------------------------------------- Init
\* last = [op, c, ret, id, had]: the operation, its campaign, its outcome, the
\* execution id it returned or touched, and whether the campaign had a job
\* before it.
HadJob(c) == c \in CampaignIds /\ get_job(jobs, JobId(c)) # {}

Done(op, c, ret, id) == [op |-> op, c |-> c, ret |-> ret, id |-> id, had |-> HadJob(c)]

Init ==
    /\ campaigns = [c \in CampaignIds |-> NoCampaign]
    /\ jobs = {}
    /\ instances = [c \in CampaignIds |-> 0]
    /\ executions = << >>
    /\ runs = {}
    /\ now = 0
    /\ last = Done("init", 0, "ok", 0)
    /\ steps = 0
    /\ probe = NoProbe
    /\ scheduler_state = "running"

Step == steps < MaxSteps /\ steps' = steps + 1

Owned(u, c) == campaigns[c].user_id = u

\* --------------------------------------------------- app/api/campaigns.py
\* Ids come from an autoincrement column: the next unused one.
NextCampaignId == Cardinality({c \in CampaignIds : campaigns[c].status # "none"}) + 1

create_campaign(u) ==
    /\ Step
    /\ NextCampaignId \in CampaignIds
    /\ campaigns' = [campaigns EXCEPT ![NextCampaignId] =
                        [user_id |-> u, status |-> "draft", trigger_type |-> "manual",
                         trigger_config |-> EmptyDict, config |-> EmptyDict]]
    /\ last' = Done("create", NextCampaignId, "200", 0)
    /\ UNCHANGED <<jobs, instances, executions, runs, now, probe, scheduler_state>>

update_campaign(u, c, status) ==
    /\ Step
    /\ IF Owned(u, c)
       THEN /\ campaigns' = [campaigns EXCEPT ![c].status = status]
            /\ last' = Done("update", c, "200", 0)
       ELSE /\ last' = Done("update", c, "404", 0)
            /\ UNCHANGED campaigns
    /\ UNCHANGED <<jobs, instances, executions, runs, now, probe, scheduler_state>>

\* The executions relationship has no delete cascade and campaign_id is not
\* nullable, so deleting a campaign that has executions fails at commit.
HasExecutions(c) == \E i \in 1..Len(executions) : executions[i].campaign_id = c

delete_campaign(u, c) ==
    /\ Step
    /\ IF ~Owned(u, c)
       THEN /\ last' = Done("delete", c, "404", 0)
            /\ UNCHANGED campaigns
       ELSE IF HasExecutions(c)
       THEN /\ last' = Done("delete", c, "500", 0)
            /\ UNCHANGED campaigns
       ELSE /\ campaigns' = [campaigns EXCEPT ![c] = [NoCampaign EXCEPT !.status = "deleted"]]
            /\ last' = Done("delete", c, "200", 0)
    /\ UNCHANGED <<jobs, instances, executions, runs, now, probe, scheduler_state>>

\* -------------------------------------------------- app/api/scheduling.py
\* a schedule endpoint whose force flag skips the validation as well
schedule_campaign_endpoint_forceall(u, c, cfg, activate, force) ==
    /\ Step
    /\ IF ~Owned(u, c)
       THEN /\ last' = Done("schedule", c, "404", 0)
            /\ UNCHANGED <<campaigns, jobs>>
       ELSE IF validate_trigger_config(cfg) # << >> /\ ~force
       THEN /\ last' = Done("schedule", c, "400", 0)
            /\ UNCHANGED <<campaigns, jobs>>
       ELSE IF check_scheduling_conflicts(campaigns, subscriptions, c, cfg) # {} /\ ~force
       THEN /\ last' = Done("schedule", c, "409", 0)
            /\ UNCHANGED <<campaigns, jobs>>
       ELSE LET out == schedule_campaign(jobs, c, cfg, now)
            IN /\ campaigns' = [campaigns EXCEPT ![c].trigger_config = cfg,
                                                 ![c].config = [trigger |-> cfg]]
               /\ jobs' = out.jobs
               /\ last' = Done("schedule", c, out.ret, 0)
    /\ UNCHANGED <<instances, executions, runs, now, scheduler_state>>

\* a schedule endpoint that stores the trigger before it looks for conflicts
schedule_campaign_endpoint_storefirst(u, c, cfg, activate, force) ==
    /\ Step
    /\ IF ~Owned(u, c)
       THEN /\ last' = Done("schedule", c, "404", 0)
            /\ UNCHANGED <<campaigns, jobs>>
       ELSE IF validate_trigger_config(cfg) # << >>
       THEN /\ last' = Done("schedule", c, "400", 0)
            /\ UNCHANGED <<campaigns, jobs>>
       ELSE LET row == [campaigns[c] EXCEPT
                           !.trigger_type = cfg.type,
                           !.trigger_config = cfg,
                           !.status = IF activate THEN "active" ELSE @,
                           !.config = [trigger |-> cfg]]
                out == schedule_campaign(jobs, c, cfg, now)
                conflict == check_scheduling_conflicts(campaigns, subscriptions, c, cfg) # {}
                                /\ ~force
            IN /\ campaigns' = [campaigns EXCEPT ![c] = row]
               /\ jobs' = IF conflict THEN jobs ELSE out.jobs
               /\ last' = Done("schedule", c, IF conflict THEN "409" ELSE out.ret, 0)
    /\ UNCHANGED <<instances, executions, runs, now, scheduler_state>>

\* The handler of POST /campaigns/{id}/schedule.
schedule_campaign_endpoint(u, c, cfg, activate, force) ==
    /\ Step
    /\ IF ~Owned(u, c)
       THEN /\ last' = Done("schedule", c, "404", 0)
            /\ UNCHANGED <<campaigns, jobs>>
       ELSE IF validate_trigger_config(cfg) # << >>
       THEN /\ last' = Done("schedule", c, "400", 0)
            /\ UNCHANGED <<campaigns, jobs>>
       ELSE IF check_scheduling_conflicts(campaigns, subscriptions, c, cfg) # {} /\ ~force
       THEN /\ last' = Done("schedule", c, "409", 0)
            /\ UNCHANGED <<campaigns, jobs>>
       ELSE LET row == [campaigns[c] EXCEPT
                           !.trigger_type = cfg.type,
                           !.trigger_config = cfg,
                           !.status = IF activate THEN "active" ELSE @,
                           !.config = [trigger |-> cfg]]
                out == schedule_campaign(jobs, c, cfg, now)
            IN /\ campaigns' = [campaigns EXCEPT ![c] = row]
               /\ jobs' = out.jobs
               /\ last' = Done("schedule", c, out.ret, 0)
    /\ UNCHANGED <<instances, executions, runs, now, scheduler_state>>

api_schedule_campaign(u, c, cfg, activate, force) ==
    /\ schedule_campaign_endpoint(u, c, cfg, activate, force)
    /\ UNCHANGED probe

\* an unschedule that also cancels the runs of the campaign in flight
api_unschedule_campaign_cancel(u, c) ==
    /\ Step
    /\ jobs' = unschedule_campaign(jobs, c)
    /\ runs' = {r \in runs : executions[r.execution].campaign_id # c}
    /\ instances' = [instances EXCEPT ![c] = 0]
    /\ last' = Done("unschedule", c, "200", 0)
    /\ UNCHANGED <<campaigns, executions, now, probe, scheduler_state>>

api_unschedule_campaign(u, c) ==
    /\ Step
    /\ IF ~Owned(u, c)
       THEN /\ last' = Done("unschedule", c, "404", 0)
            /\ UNCHANGED <<campaigns, jobs>>
       ELSE /\ jobs' = unschedule_campaign(jobs, c)
            /\ campaigns' = IF campaigns[c].status = "active"
                               /\ campaigns[c].trigger_type # "manual"
                            THEN [campaigns EXCEPT ![c].status = "paused"]
                            ELSE campaigns
            /\ last' = Done("unschedule", c, "200", 0)
    /\ UNCHANGED <<instances, executions, runs, now, probe, scheduler_state>>

\* The handler inserts its own pending record, then awaits the runner, which
\* inserts a second record when it goes ahead; the response carries the id of
\* the first.
execute_campaign_manually(u, c) ==
    /\ Step
    /\ IF ~Owned(u, c)
       THEN /\ last' = Done("execute", c, "404", 0)
            /\ UNCHANGED <<executions, runs>>
       ELSE LET own == Append(executions, NewExecution(c, "manual", now))
                exs == _execute_campaign(own, campaigns, c, CfgManual, now)
            IN /\ Len(exs) <= MaxExecutions
               /\ executions' = exs
               /\ runs' = IF Len(exs) > Len(own)
                          THEN runs \cup {[execution |-> Len(exs), by |-> "manual"]}
                          ELSE runs
               /\ last' = Done("execute", c, RunnerGate(campaigns, c, CfgManual, now), Len(own))
    /\ UNCHANGED <<campaigns, jobs, instances, now, probe, scheduler_state>>

\* ------------------------------------------------ the scheduler's job loop
\* The run times of a due job up to the clock (Job._get_run_times), of which
\* a coalescing job keeps the last one only.
LastRunTime(job, t) ==
    IF job.trigger.kind = "date" THEN job.next_run_time
    ELSE job.next_run_time
         + job.trigger.interval * ((t - job.next_run_time) \div job.trigger.interval)

RunTimes(job, t) ==
    IF job.coalesce \/ job.trigger.kind = "date" THEN {LastRunTime(job, t)}
    ELSE {rt \in job.next_run_time..t :
             (rt - job.next_run_time) % job.trigger.interval = 0}

Missed(job, rt, t) == (t - rt) * TickSeconds > job.misfire_grace_time

\* The job after its run times were handed to the executor: rescheduled to
\* the trigger's next fire time, or removed when the trigger is exhausted.
Rescheduled(js, job, t) ==
    LET next == get_next_fire_time(job.trigger, LastRunTime(job, t))
    IN IF next = NoTime THEN js \ {job}
       ELSE (js \ {job}) \cup {[job EXCEPT !.next_run_time = next]}

\* One due job of _process_jobs: submit it to the executor, which refuses it
\* when max_instances runs of the job id are in flight, skips run times older
\* than the misfire grace time, and otherwise calls _execute_campaign.
ProcessDueJob(job) ==
    LET c == job.id[2]
        due == \E rt \in RunTimes(job, now) : ~Missed(job, rt, now)
        refused == instances[c] >= job.max_instances
        exs == IF refused \/ ~due THEN executions
               ELSE _execute_campaign(executions, campaigns, c, job.args, now)
        started == Len(exs) > Len(executions)
    IN /\ job \in jobs
       /\ job.next_run_time <= now
       /\ Len(exs) <= MaxExecutions
       /\ jobs' = Rescheduled(jobs, job, now)
       /\ executions' = exs
       /\ runs' = IF started THEN runs \cup {[execution |-> Len(exs), by |-> "scheduler"]}
                  ELSE runs
       /\ instances' = IF started THEN [instances EXCEPT ![c] = @ + 1] ELSE instances
       /\ last' = Done("fire", c,
                       IF refused THEN "max_instances"
                       ELSE IF ~due THEN "missed"
                       ELSE RunnerGate(campaigns, c, job.args, now), 0)
       /\ UNCHANGED <<campaigns, now, steps, probe, scheduler_state>>

\* The campaign action of a suspended run returns, or raises text:
\* _run_campaign_execution from the resumption to its end, on the tables.
_run_campaign_execution_end(r, text) ==
    LET e == executions[r.execution]
        c == e.campaign_id
    IN /\ r \in runs
       /\ executions' = [executions EXCEPT ![r.execution] =
                            IF text = "" THEN MarkCompleted(e, now)
                            ELSE MarkFailed(e, text, now)]
       /\ runs' = runs \ {r}
       /\ instances' = IF r.by = "scheduler" THEN [instances EXCEPT ![c] = @ - 1]
                       ELSE instances
       /\ last' = Done(IF text = "" THEN "completed" ELSE "failed", c, text, r.execution)
       /\ UNCHANGED <<campaigns, jobs, now, steps, scheduler_state>>

\* The rest of _execute_campaign with the error hooks working.
FinishRun(r, text) ==
    /\ _run_campaign_execution_end(r, text)
    /\ UNCHANGED probe

Tick ==
    /\ Step
    /\ now < MaxTime
    /\ now' = now + 1
    /\ last' = Done("tick", 0, "ok", 0)
    /\ UNCHANGED <<campaigns, jobs, instances, executions, runs, probe, scheduler_state>>

\* ------------------------------------------------------------------- Next
Next ==
    \/ \E u \in UserIds : create_campaign(u)
    \/ \E u \in UserIds, c \in CampaignIds, st \in UpdateStatuses : update_campaign(u, c, st)
    \/ \E u \in UserIds, c \in CampaignIds : delete_campaign(u, c)
    \/ \E u \in UserIds, c \in CampaignIds, cfg \in RequestConfigs, activate, force \in BOOLEAN :
          api_schedule_campaign(u, c, cfg, activate, force)
    \/ \E u \in UserIds, c \in CampaignIds : api_unschedule_campaign(u, c)
    \/ \E u \in UserIds, c \in CampaignIds : execute_campaign_manually(u, c)
    \/ \E job \in jobs : ProcessDueJob(job)
    \/ \E r \in runs, text \in ExceptionTexts \cup {""} : FinishRun(r, text)
    \/ Tick

Spec == Init /\ [][Next]_vars

TypeOK ==
    /\ \A c \in CampaignIds : campaigns[c].status \in CampaignStatus \cup {"none", "deleted"}
    /\ \A c \in CampaignIds : instances[c] \in 0..default_max_instances
    /\ Len(executions) <= MaxExecutions
    /\ now \in Times

\* The suspended campaign action of every run returns or raises in the end:
\* the event loop resumes each coroutine when its sleep elapses.
FairSpec == Spec /\ WF_vars(\E r \in runs, text \in ExceptionTexts \cup {""} : FinishRun(r, text))

\* ------------------------------------------- the one-shot scenario (8.)
\* The scheduler sleeps until the earliest next_run_time of its jobs and wakes
\* then: the clock does not pass a due job before the job loop has seen it.
PromptTick ==
    /\ now < MaxTime
    /\ \A j \in jobs : j.next_run_time > now
    /\ now' = now + 1
    /\ last' = Done("tick", 0, "ok", 0)
    /\ UNCHANGED <<campaigns, jobs, instances, executions, runs, steps, probe, scheduler_state>>

\* Campaigns are created and scheduled once, activated, with a Scheduled
\* trigger in the future; their action succeeds.
ScenarioNext ==
    \/ \E u \in UserIds : create_campaign(u)
    \/ \E u \in UserIds, c \in CampaignIds, t \in Times :
          /\ campaigns[c].status = "draft"
          /\ t > now
          /\ api_schedule_campaign(u, c, CfgScheduled(t), TRUE, FALSE)
    \/ \E job \in jobs : ProcessDueJob(job)
    \/ \E r \in runs : FinishRun(r, "")
    \/ PromptTick

ScenarioSpec ==
    /\ Init /\ [][ScenarioNext]_vars
    /\ WF_vars(\E job \in jobs : ProcessDueJob(job))
    /\ WF_vars(\E r \in runs : FinishRun(r, ""))
    /\ WF_vars(PromptTick)

\* ------------------------------------------------- stop and start (main.py)
\* a MemoryJobStore where the SQLAlchemyJobStore belongs: nothing to load
load_jobs_memory(js) == {}

\* The job store is a SQLAlchemyJobStore on the application's database: the
\* jobs a new scheduler finds at start are the rows of its table.
load_jobs(js) == js

\* lifespan shutdown: the scheduler shuts down and the process ends; the
\* coroutines in flight end with it, their records stay as they are.
stop ==
    /\ Step
    /\ scheduler_state = "running"
    /\ scheduler_state' = "stopped"
    /\ runs' = {}
    /\ instances' = [c \in CampaignIds |-> 0]
    /\ last' = Done("stop", 0, "ok", 0)
    /\ UNCHANGED <<campaigns, jobs, executions, now, probe>>

\* lifespan startup of the next process
start ==
    /\ Step
    /\ scheduler_state = "stopped"
    /\ scheduler_state' = "running"
    /\ jobs' = load_jobs(jobs)
    /\ last' = Done("start", 0, "ok", 0)
    /\ UNCHANGED <<campaigns, instances, executions, runs, now, probe>>

\* Requests are served and jobs are processed while the process is up.
Up == scheduler_state = "running"

RestartNext ==
    \/ Up /\ \E u \in UserIds : create_campaign(u)
    \/ Up /\ \E u \in UserIds, c \in CampaignIds, cfg \in RequestConfigs, activate \in BOOLEAN :
                api_schedule_campaign(u, c, cfg, activate, FALSE)
    \/ Up /\ \E job \in jobs : ProcessDueJob(job)
    \/ Up /\ \E r \in runs, text \in ExceptionTexts \cup {""} : FinishRun(r, text)
    \/ stop
    \/ start
    \/ Tick

RestartSpec == Init /\ [][RestartNext]_vars

\* ------------------------------- direct calls of validate_trigger_config
\* The dicts that carry key k with one of the values vals, or do not carry it.
Field(k, vals) == {EmptyDict} \cup {k :> v : v \in vals}

CronBadField == <<"x", "*", "*", "*", "*">>

ValidateInputs ==
    { ty @@ ra @@ it @@ iv @@ ce @@ en @@ co :
        ty \in Field("type", TriggerType \cup {"", "bogus"}),
        ra \in Field("run_at", {CfgScheduled(1).run_at, CfgBadDate.run_at}),
        it \in Field("interval_type", {"minutes", "weeks", "cron", "yearly"}),
        iv \in Field("interval_value", (0 - MaxInterval)..MaxInterval),
        ce \in Field("cron_expression",
                     {<< >>, CronEveryMinute, CronThreeFields, CronBadField}),
        en \in Field("event_name", {"signup"}),
        co \in Field("conditions", {<<CondFail>>}) }

ValidateInit ==
    /\ campaigns = [c \in CampaignIds |-> NoCampaign]
    /\ jobs = {}
    /\ instances = [c \in CampaignIds |-> 0]
    /\ executions = << >>
    /\ runs = {}
    /\ now = 0
    /\ last = Done("init", 0, "ok", 0)
    /\ steps = 0
    /\ scheduler_state = "running"
    /\ probe \in {[fn |-> "validate_trigger_config", cfg |-> cfg, called |-> FALSE,
                    errors |-> << >>] : cfg \in ValidateInputs}

Validate ==
    /\ probe.fn = "validate_trigger_config"
    /\ ~probe.called
    /\ probe' = [probe EXCEPT !.called = TRUE,
                              !.errors = validate_trigger_config(probe.cfg)]
    /\ UNCHANGED <<campaigns, jobs, instances, executions, runs, now, last, steps,
                   scheduler_state>>

ValidateSpec == ValidateInit /\ [][Validate]_vars

\* ---------------------------- direct calls of check_scheduling_conflicts
\* The campaigns table of the call: MaxOwned campaigns of user 1, the first
\* n of them Active and the others drafts, all with the trigger stored under
\* config["trigger"] (none when stored is empty); and one Active campaign of
\* another user that carries the proposed trigger itself.
OtherUser == MaxUsers + 1

ConflictTable(n, stored, cfg) ==
    [i \in 1..(MaxOwned + 1) |->
        IF i = MaxOwned + 1
        THEN [user_id |-> OtherUser, status |-> "active", trigger_type |-> "manual",
              trigger_config |-> cfg, config |-> [trigger |-> cfg]]
        ELSE [user_id |-> 1, status |-> IF i <= n THEN "active" ELSE "draft",
              trigger_type |-> "manual", trigger_config |-> stored,
              config |-> IF stored = EmptyDict THEN EmptyDict ELSE [trigger |-> stored]]]

ConflictTiers == {"none"} \cup DOMAIN PRICING_TIERS

ProposedConfigs ==
    { CfgManual, CfgScheduled(1), CfgInterval("minutes", 1), CfgInterval("hours", 1),
      CfgCron(CronThreeFields) }

StoredTriggers ==
    { EmptyDict, CfgScheduled(1), CfgInterval("minutes", 1), CfgInterval("minutes", MaxInterval),
      CfgInterval("hours", 1), CfgCron(CronEveryMinute) }

ConflictInit ==
    /\ campaigns = [c \in CampaignIds |-> NoCampaign]
    /\ jobs = {}
    /\ instances = [c \in CampaignIds |-> 0]
    /\ executions = << >>
    /\ runs = {}
    /\ now = 0
    /\ last = Done("init", 0, "ok", 0)
    /\ steps = 0
    /\ scheduler_state = "running"
    /\ probe \in {[fn |-> "check_scheduling_conflicts",
                    camps |-> ConflictTable(n, stored, cfg),
                    subs |-> [u \in 1..OtherUser |-> IF u = 1 THEN tier ELSE "none"],
                    c |-> c, cfg |-> cfg, called |-> FALSE, conflicts |-> {}] :
                        n \in 0..MaxOwned, stored \in StoredTriggers, cfg \in ProposedConfigs,
                        tier \in ConflictTiers, c \in {1, MaxOwned}}

CheckConflicts ==
    /\ probe.fn = "check_scheduling_conflicts"
    /\ ~probe.called
    /\ probe' = [probe EXCEPT
                    !.called = TRUE,
                    !.conflicts = check_scheduling_conflicts(probe.camps, probe.subs,
                                                             probe.c, probe.cfg)]
    /\ UNCHANGED <<campaigns, jobs, instances, executions, runs, now, last, steps,
                   scheduler_state>>

ConflictSpec == ConflictInit /\ [][CheckConflicts]_vars

\* ------------------------------------ the schedule endpoint, request by request
\* The requests to the schedule endpoint, each kept with its body: a
\* configuration without conflicts, recurring ones that overlap each other
\* (one of them with a trigger that cannot be built) and an invalid one.
EndpointConfigs ==
    { CfgManual, CfgInterval("minutes", 1), CfgCron(CronEveryMinute),
      CfgCron(CronThreeFields), CfgNoType }

ScheduleRequest ==
    \E u \in UserIds, c \in CampaignIds, cfg \in EndpointConfigs, activate, force \in BOOLEAN :
        /\ schedule_campaign_endpoint(u, c, cfg, activate, force)
        /\ probe' = [fn |-> "schedule_campaign_endpoint", u |-> u, c |-> c, cfg |-> cfg,
                      activate |-> activate, force |-> force]

EndpointNext ==
    \/ \E u \in UserIds : create_campaign(u)
    \/ ScheduleRequest

EndpointSpec == Init /\ [][EndpointNext]_vars

\* ------------------------- the workflow callbacks (api/n8n.py, api/campaigns.py)
\* The execution the callbacks update: the first of the campaign's records
\* ordered by started_at descending; of two records stamped in the same
\* tick the later insert is the newer one.  0 when the campaign has none.
LatestExecution(c) ==
    LET mine == {i \in 1..Len(executions) : executions[i].campaign_id = c}
        newest == {i \in mine : \A k \in mine :
                      \/ executions[k].started_at < executions[i].started_at
                      \/ executions[k].started_at = executions[i].started_at /\ k <= i}
    IN IF mine = {} THEN 0 ELSE CHOOSE i \in newest : TRUE

CallbackStatuses == {"running", "completed", "failed"}

log_campaign_status(c, status) ==
    /\ Step
    /\ IF ~Exists(c)
       THEN /\ last' = Done("log", c, "404", 0)
            /\ UNCHANGED executions
       ELSE /\ executions' = IF LatestExecution(c) = 0 THEN executions
                             ELSE [executions EXCEPT ![LatestExecution(c)].status = status]
            /\ last' = Done("log", c, "logged", LatestExecution(c))
    /\ UNCHANGED <<campaigns, jobs, instances, runs, now, probe, scheduler_state>>

complete_campaign_execution(c, status) ==
    /\ Step
    /\ IF ~Exists(c)
       THEN /\ last' = Done("complete", c, "404", 0)
            /\ UNCHANGED executions
       ELSE /\ executions' = IF LatestExecution(c) = 0 THEN executions
                             ELSE [executions EXCEPT ![LatestExecution(c)].status = status,
                                                     ![LatestExecution(c)].completed_at = now]
            /\ last' = Done("complete", c, "completed", LatestExecution(c))
    /\ UNCHANGED <<campaigns, jobs, instances, runs, now, probe, scheduler_state>>

\* Campaigns are created, activated and run by hand; their workflows call back.
CallbackNext ==
    \/ \E u \in UserIds : create_campaign(u)
    \/ \E u \in UserIds, c \in CampaignIds, st \in UpdateStatuses : update_campaign(u, c, st)
    \/ \E u \in UserIds, c \in CampaignIds : execute_campaign_manually(u, c)
    \/ \E r \in runs, text \in ExceptionTexts \cup {""} : FinishRun(r, text)
    \/ \E c \in CampaignIds, st \in CallbackStatuses : log_campaign_status(c, st)
    \/ \E c \in CampaignIds, st \in CallbackStatuses : complete_campaign_execution(c, st)

CallbackSpec == Init /\ [][CallbackNext]_vars

\* ------------------------------------------- the condition polls (5., 8.)
CondPass == [type |-> "time_window", start_time |-> 0, end_time |-> 24]

ConditionConfigs ==
    { CfgCondition(<<CondFail>>), CfgCondition(<<CondPass>>),
      CfgCondition(<<CondPass, CondFail>>) }

\* The scheduler sleeps until the earliest next_run_time of its jobs; a
\* condition job is polled every condition_poll_minutes.
Wakeup ==
    /\ jobs # {}
    /\ \E j \in jobs :
          /\ \A k \in jobs : j.next_run_time <= k.next_run_time
          /\ j.next_run_time > now
          /\ j.next_run_time <= MaxPolls * IntervalTrigger("minutes", condition_poll_minutes, 0).interval
          /\ now' = j.next_run_time
    /\ last' = Done("tick", 0, "ok", 0)
    /\ UNCHANGED <<campaigns, jobs, instances, executions, runs, steps, probe, scheduler_state>>

\* Campaigns are created and scheduled with Condition triggers, activated or
\* not; the scheduler polls them.
ConditionNext ==
    \/ \E u \in UserIds : create_campaign(u)
    \/ \E u \in UserIds, c \in CampaignIds, cfg \in ConditionConfigs, activate \in BOOLEAN :
          api_schedule_campaign(u, c, cfg, activate, TRUE)
    \/ \E job \in jobs : ProcessDueJob(job)
    \/ \E r \in runs, text \in ExceptionTexts \cup {""} : FinishRun(r, text)
    \/ Wakeup

ConditionSpec == Init /\ [][ConditionNext]_vars

\* --------------------- the error hooks (app/services/monitoring_service.py)
CRITICAL_ERROR_THRESHOLD == 10
error_ttl == 3600

Categories == {"CAMPAIGN_EXECUTION_ERROR", "EXTERNAL_API_ERROR"}

\* error:{category}:{service}:{timestamp.minute}, t in seconds
error_key(category, service, t) == <<"error", category, service, (t \div 60) % 60>>

\* Redis is a set of [key, count, expires]; a key is gone once its time to
\* live has run out.
redis_get(keys, key, t) ==
    LET live == {k \in keys : k.key = key /\ k.expires > t}
    IN IF live = {} THEN 0 ELSE (CHOOSE k \in live : TRUE).count

\* incr followed by expire(error_ttl)
redis_incr_expire(keys, key, t) ==
    {k \in keys : k.key # key /\ k.expires > t}
        \cup {[key |-> key, count |-> redis_get(keys, key, t) + 1, expires |-> t + error_ttl]}

\* The error count the alert is decided on: range(1), the current minute's key.
_check_alert_threshold(keys, category, service, t) ==
    redis_get(keys, error_key(category, service, t), t)

\* track_error: raises when Redis cannot be reached (the log line and the
\* Prometheus counter come first), else counts the error and decides the alert.
track_error(keys, redis_up, category, service, t) ==
    IF ~redis_up
    THEN [raised |-> TRUE, keys |-> keys, error_count |-> 0, alert |-> FALSE]
    ELSE LET stored == redis_incr_expire(keys, error_key(category, service, t), t)
             error_count == _check_alert_threshold(stored, category, service, t)
         IN [raised |-> FALSE, keys |-> stored, error_count |-> error_count,
             alert |-> error_count >= CRITICAL_ERROR_THRESHOLD]

\* The tracker and what its last call did; tracked is the history of the
\* errors counted so far, as [category, t, n]: n errors of category at time t.
NewTracker(fn, up) ==
    [fn |-> fn, redis_up |-> up, clock |-> 0, keys |-> {}, tracked |-> {}, calls |-> 0,
     advances |-> 0, category |-> "", alert |-> FALSE, error_count |-> 0,
     outcome |-> "none", context |-> EmptyDict]

Note(tracked, category, t) ==
    LET same == {x \in tracked : x.category = category /\ x.t = t}
    IN IF same = {} THEN tracked \cup {[category |-> category, t |-> t, n |-> 1]}
       ELSE (tracked \ same)
                \cup {[category |-> category, t |-> t, n |-> (CHOOSE x \in same : TRUE).n + 1]}

Tracked(tr, res, category, context, t) ==
    [tr EXCEPT !.keys = res.keys,
               !.tracked = IF res.raised THEN @ ELSE Note(@, category, t),
               !.calls = @ + 1,
               !.category = category,
               !.alert = res.alert,
               !.error_count = res.error_count,
               !.outcome = IF res.raised THEN "raised" ELSE "returned",
               !.context = context]

\* The tracker on its own: errors of either category are tracked while the
\* wall clock (in seconds) goes on by half a minute, a minute, or an hour
\* less half a minute.
AdvanceSeconds == {30, 60, 3570}

TrackerInit ==
    /\ campaigns = [c \in CampaignIds |-> NoCampaign]
    /\ jobs = {}
    /\ instances = [c \in CampaignIds |-> 0]
    /\ executions = << >>
    /\ runs = {}
    /\ now = 0
    /\ last = Done("init", 0, "ok", 0)
    /\ steps = 0
    /\ probe = NewTracker("track_error", TRUE)
    /\ scheduler_state = "running"

TrackError(category) ==
    /\ probe.calls < MaxErrors
    /\ probe' = Tracked(probe,
                        track_error(probe.keys, probe.redis_up, category,
                                    "campaign_scheduler", probe.clock),
                        category, EmptyDict, probe.clock)
    /\ UNCHANGED <<campaigns, jobs, instances, executions, runs, now, last, steps,
                   scheduler_state>>

Advance(d) ==
    /\ probe.advances < MaxAdvances
    /\ probe' = [probe EXCEPT !.clock = @ + d, !.advances = @ + 1,
                              !.alert = FALSE, !.category = ""]
    /\ UNCHANGED <<campaigns, jobs, instances, executions, runs, now, last, steps,
                   scheduler_state>>

TrackerNext ==
    \/ \E category \in Categories : TrackError(category)
    \/ \E d \in AdvanceSeconds : Advance(d)

TrackerSpec == TrackerInit /\ [][TrackerNext]_vars

\* The runner with its error hooks: Redis is reachable or not; the except
\* branch of _execute_campaign awaits track_error with the campaign id and the
\* trigger configuration (kept here by its type) as context.
HookInit ==
    /\ campaigns = [c \in CampaignIds |-> NoCampaign]
    /\ jobs = {}
    /\ instances = [c \in CampaignIds |-> 0]
    /\ executions = << >>
    /\ runs = {}
    /\ now = 0
    /\ last = Done("init", 0, "ok", 0)
    /\ steps = 0
    /\ probe \in {NewTracker("_execute_campaign", up) : up \in BOOLEAN}
    /\ scheduler_state = "running"

ErrorContext(r) ==
    [campaign_id |-> executions[r.execution].campaign_id,
     trigger_config |-> [type |-> executions[r.execution].triggered_by]]

HookFinishRun(r, text) ==
    /\ _run_campaign_execution_end(r, text)
    /\ probe' = IF text = ""
                THEN [probe EXCEPT !.outcome = "returned", !.category = "", !.alert = FALSE,
                                   !.context = EmptyDict]
                ELSE Tracked(probe,
                             track_error(probe.keys, probe.redis_up, "CAMPAIGN_EXECUTION_ERROR",
                                         "campaign_scheduler", now * TickSeconds),
                             "CAMPAIGN_EXECUTION_ERROR", ErrorContext(r), now * TickSeconds)

HookNext ==
    \/ \E u \in UserIds : create_campaign(u)
    \/ \E u \in UserIds, c \in CampaignIds, st \in UpdateStatuses : update_campaign(u, c, st)
    \/ \E u \in UserIds, c \in CampaignIds : execute_campaign_manually(u, c)
    \/ \E r \in runs, text \in ExceptionTexts \cup {""} : HookFinishRun(r, text)

HookSpec == HookInit /\ [][HookNext]_vars

\* -------------------------- bounded recurring triggers (3., create_recurring_trigger)
\* TriggerConfigurationService.create_recurring_trigger at time t; a date is
\* kept with the time it denotes, NoTime is None.
create_recurring_trigger(interval_type, interval_value, start_date, end_date, t) ==
    [type |-> "recurring", interval_type |-> interval_type,
     interval_value |-> interval_value, created_at |-> t]
        @@ (IF start_date # NoTime THEN "start_date" :> [iso |-> TRUE, at |-> start_date]
            ELSE EmptyDict)
        @@ (IF end_date # NoTime THEN "end_date" :> [iso |-> TRUE, at |-> end_date]
            ELSE EmptyDict)

\* Campaigns are scheduled with the configurations the builder returns, with
\* or without bounds; the scheduler fires their jobs.
WindowNext ==
    \/ \E u \in UserIds : create_campaign(u)
    \/ \E u \in UserIds, c \in CampaignIds, start_date, end_date \in Times \cup {NoTime},
          activate \in BOOLEAN :
          /\ start_date # NoTime /\ end_date # NoTime => start_date <= end_date
          /\ api_schedule_campaign(u, c,
                 create_recurring_trigger("minutes", 1, start_date, end_date, now),
                 activate, TRUE)
    \/ \E job \in jobs : ProcessDueJob(job)
    \/ \E r \in runs, text \in ExceptionTexts \cup {""} : FinishRun(r, text)
    \/ Tick

WindowSpec == Init /\ [][WindowNext]_vars

\* ------------------------------------------------------------ properties
ExecutionIds == 1..Len(executions)

JobsOf(c) == get_job(jobs, JobId(c))

RunningOf(c) ==
    {i \in ExecutionIds : executions[i].campaign_id = c /\ executions[i].status = "running"}

SchedulerRunsOf(c) ==
    {r \in runs : r.by = "scheduler" /\ executions[r.execution].campaign_id = c}

\* The last step was a call of CampaignScheduler.schedule_campaign.
ScheduleCalled == last.op = "schedule" /\ last.ret \in {"job", "None", "raised"}

\* C1: the scheduler holds at most one job per campaign id, and after a
\* schedule_campaign call that registered a job the campaign's one job is the
\* job of that call (it carries the configuration just scheduled).
C1_OneJobPerCampaign ==
    /\ \A c \in CampaignIds : Cardinality(JobsOf(c)) <= 1
    /\ (last.op = "schedule" /\ last.ret = "job") =>
          \E j \in jobs : j.id = JobId(last.c) /\ j.args = campaigns[last.c].trigger_config

\* A second schedule_campaign for a campaign that already had a job.
C1_Witness ==
    /\ last.op = "schedule" /\ last.ret = "job" /\ last.had
    /\ Cardinality(JobsOf(last.c)) = 1

\* C2: at most one execution of a campaign has status running at any moment.
C2_AtMostOneRunning == \A c \in CampaignIds : Cardinality(RunningOf(c)) <= 1

\* C3: at most one scheduler-started run of a campaign is in flight; a fire
\* refused because a run of the job is in flight creates no execution and
\* starts no run, and the end of a run starts no run either.
C3_FireInFlightDropped ==
    [][ /\ \A c \in CampaignIds : Cardinality(SchedulerRunsOf(c))' <= 1
        /\ (last'.op = "fire" /\ instances[last'.c] >= 1) =>
              (executions' = executions /\ runs' = runs)
        /\ (last'.op \in {"completed", "failed"}) =>
              (Len(executions') = Len(executions) /\ runs' \subseteq runs) ]_vars

\* A fire that came due while the previous run was in flight.
C3_Witness ==
    /\ last.op = "fire" /\ last.ret = "max_instances"
    /\ SchedulerRunsOf(last.c) # {}

\* C4: every campaign with a job armed has status Active.
C4_ArmedOnlyIfActive ==
    \A j \in jobs : campaigns[j.id[2]].status = "active"

\* C5: right after unschedule_campaign(c) the list of scheduled campaigns has
\* no entry for c, and when c had no job the job table is unchanged.
C5_UnscheduleRemoves ==
    [][ (last'.op = "unschedule" /\ last'.ret = "200") =>
          /\ \A e \in get_scheduled_campaigns(jobs') : e.campaign_id # last'.c
          /\ JobsOf(last'.c) = {} => jobs' = jobs ]_vars

\* An unschedule of a campaign that had a job, and that has none now.
C5_Witness ==
    /\ last.op = "unschedule" /\ last.ret = "200" /\ last.had
    /\ JobsOf(last.c) = {}

\* C6: an unschedule leaves the campaign without a job and leaves the runs in
\* flight alone; a job appears only through a schedule request; the scheduler
\* starts a run of a campaign only from a job of that campaign; and every
\* running execution reaches completed or failed.
C6_NoNewRunAfterUnschedule ==
    /\ [][ /\ (last'.op = "unschedule" /\ last'.ret = "200") =>
                (get_job(jobs', JobId(last'.c)) = {} /\ runs' = runs /\ executions' = executions)
           /\ \A c \in CampaignIds :
                (JobsOf(c) = {} /\ JobsOf(c)' # {}) => (last'.op = "schedule" /\ last'.c = c)
           /\ (last'.op = "fire" /\ Len(executions') > Len(executions)) =>
                JobsOf(last'.c) # {} ]_vars
    /\ \A i \in 1..MaxExecutions :
          (i \in ExecutionIds /\ executions[i].status = "running")
             ~> (i \in ExecutionIds /\ executions[i].status \in {"completed", "failed"})

\* An unschedule while a scheduler-started run of the campaign is in flight.
C6_Witness ==
    /\ last.op = "unschedule" /\ last.ret = "200" /\ last.had
    /\ SchedulerRunsOf(last.c) # {}

\* C7: when the trigger of the scheduled configuration cannot be built,
\* schedule_campaign raises and the campaign has no job after the call.
C7_TriggerErrorNoJob ==
    (ScheduleCalled /\ BuildTrigger(campaigns[last.c].trigger_config, now).ret = "raised") =>
        (last.ret = "raised" /\ JobsOf(last.c) = {})

\* A schedule call with a cron expression of three fields.
C7_Witness ==
    /\ ScheduleCalled /\ last.ret = "raised"
    /\ campaigns[last.c].trigger_config = CfgCron(CronThreeFields)

\* C8: schedule_campaign returns null and leaves no job armed for every
\* configuration of kind manual, event or webhook.
C8_NullForUnscheduledKinds ==
    (ScheduleCalled /\ campaigns[last.c].trigger_config.type \in {"manual", "event", "webhook"}) =>
        (last.ret = "None" /\ JobsOf(last.c) = {})

\* C9: a runner invocation for a campaign that is not Active starts no run
\* and leaves every record it finds as it is, the records it adds are
\* pending, and a pending record is never changed afterwards.
C9_InactiveStaysPending ==
    [][ /\ (/\ last'.op \in {"fire", "execute"}
            /\ last'.ret \notin {"404", "max_instances", "missed"}
            /\ campaigns[last'.c].status # "active") =>
              /\ runs' = runs
              /\ SubSeq(executions', 1, Len(executions)) = executions
              /\ \A i \in (Len(executions) + 1)..Len(executions') :
                    executions'[i].status = "pending"
        /\ \A i \in ExecutionIds :
              executions[i].status = "pending" => executions'[i] = executions[i] ]_vars

\* A manual execute of a campaign that is not Active: its record is pending.
C9_Witness ==
    /\ last.op = "execute" /\ last.ret = "not_active"
    /\ executions[last.id].status = "pending"
    /\ executions[last.id].campaign_id = last.c

\* C10: when the campaign action raises, the execution record of the run gets
\* status failed, the exception text as error_message and completed_at, and
\* a failed record is not changed afterwards.
C10_FailureRecorded ==
    [][ /\ last'.op = "failed" =>
              /\ executions'[last'.id].status = "failed"
              /\ executions'[last'.id].error_message = last'.ret
              /\ executions'[last'.id].completed_at = now'
        /\ \A i \in ExecutionIds :
              executions[i].status = "failed" => executions'[i] = executions[i] ]_vars

\* A run that failed.
C10_Witness ==
    /\ last.op = "failed"
    /\ executions[last.id].status = "failed"
    /\ executions[last.id].error_message \in ExceptionTexts

\* The ids of the execution records of campaign c in the table exs.
RecordsOf(exs, c) == {i \in 1..Len(exs) : exs[i].campaign_id = c}

\* C11: every fire and every manual invocation of a campaign for which the
\* runner goes ahead adds exactly one execution record of that campaign.
C11_OneRecordPerInvocation ==
    [][ (last'.op \in {"fire", "execute"} /\ last'.ret = "run") =>
            Cardinality(RecordsOf(executions', last'.c))
                = Cardinality(RecordsOf(executions, last'.c)) + 1 ]_vars

\* C12: the record whose id the manual execute endpoint returned for an
\* Active campaign reaches completed or failed.
C12_ReturnedIdTracksRun ==
    \A i \in 1..MaxExecutions :
        (last.op = "execute" /\ last.ret = "run" /\ last.id = i)
            ~> (i \in ExecutionIds /\ executions[i].status \in {"completed", "failed"})

\* C13: an Active campaign scheduled once with a Scheduled trigger in the
\* future, whose action succeeds, comes to have exactly one execution record,
\* completed and triggered by "scheduled", and no job any more; it never has
\* a second record.
C13_OneShotScheduled ==
    /\ [](\A c \in CampaignIds : Cardinality(RecordsOf(executions, c)) <= 1)
    /\ \A c \in CampaignIds :
          (JobsOf(c) # {}) ~>
             /\ JobsOf(c) = {}
             /\ Cardinality(RecordsOf(executions, c)) = 1
             /\ \A i \in RecordsOf(executions, c) :
                   /\ executions[i].status = "completed"
                   /\ executions[i].triggered_by = "scheduled"

\* The run of a one-shot job completed; the job is gone.
C13_Witness ==
    /\ last.op = "completed"
    /\ JobsOf(last.c) = {}
    /\ campaigns[last.c].trigger_type = "scheduled"
    /\ executions[last.id].status = "completed"
    /\ executions[last.id].triggered_by = "scheduled"
    /\ RecordsOf(executions, last.c) = {last.id}

PastRunAt(cfg, t) ==
    /\ Has(cfg, "type") /\ cfg.type = "scheduled"
    /\ Has(cfg, "run_at") /\ cfg.run_at.iso /\ cfg.run_at.at <= t

\* C15: a schedule request whose Scheduled trigger has a run_at that is not
\* strictly in the future is rejected: it never gets as far as storing the
\* configuration and registering a job.
C15_PastRunAtRejected ==
    (last.op = "schedule" /\ PastRunAt(campaigns[last.c].trigger_config, now)) =>
        (last.ret \in {"400", "404", "409"} /\ last.ret # "job")

Validated == probe.fn = "validate_trigger_config" /\ probe.called

\* C16: for a configuration whose type is missing, empty or not one of the
\* known kinds, validate_trigger_config returns exactly one error, whatever
\* the other fields are.
C16_OneErrorForBadType ==
    (Validated /\ (~TruthyStr(probe.cfg, "type") \/ probe.cfg.type \notin TriggerType)) =>
        Len(probe.errors) = 1

\* A configuration without a type whose other fields are wrong as well.
C16_Witness ==
    /\ Validated
    /\ ~Has(probe.cfg, "type")
    /\ Has(probe.cfg, "interval_type") /\ probe.cfg.interval_type = "yearly"
    /\ Has(probe.cfg, "run_at") /\ ~probe.cfg.run_at.iso
    /\ probe.errors = <<"Trigger type is required">>

\* C17: for a Recurring configuration with interval_type "cron",
\* validate_trigger_config returns no error exactly when cron_expression is
\* a valid cron expression of five fields.
C17_CronSyntaxValidated ==
    (/\ Validated
     /\ Has(probe.cfg, "type") /\ probe.cfg.type = "recurring"
     /\ Has(probe.cfg, "interval_type") /\ probe.cfg.interval_type = "cron") =>
        (probe.errors = << >>
            <=> (Has(probe.cfg, "cron_expression")
                    /\ from_crontab_ok(probe.cfg.cron_expression)))

\* C18: for a Recurring configuration with interval_type minutes, hours,
\* days or weeks, validate_trigger_config returns no error only if
\* interval_value is present and positive.
C18_IntervalValuePositive ==
    (/\ Validated
     /\ Has(probe.cfg, "type") /\ probe.cfg.type = "recurring"
     /\ Has(probe.cfg, "interval_type")
     /\ probe.cfg.interval_type \in {"minutes", "hours", "days", "weeks"}
     /\ probe.errors = << >>) =>
        (Has(probe.cfg, "interval_value") /\ probe.cfg.interval_value > 0)

Checked == probe.fn = "check_scheduling_conflicts" /\ probe.called

\* The number of Active campaigns of the owner of the campaign of the call.
ActiveOfOwner ==
    Cardinality({o \in DOMAIN probe.camps :
                    /\ probe.camps[o].user_id = probe.camps[probe.c].user_id
                    /\ probe.camps[o].status = "active"})

QuotaReported == \E x \in probe.conflicts : x.kind = "Campaign limit reached"

\* The errors of category counted after time since.
RECURSIVE SumN(_)
SumN(S) ==
    IF S = {} THEN 0
    ELSE LET x == CHOOSE y \in S : TRUE IN x.n + SumN(S \ {x})

ErrorsSince(tracked, category, since) ==
    SumN({x \in tracked : x.category = category /\ x.t > since})

OwnerTier == probe.subs[probe.camps[probe.c].user_id]

\* C19: with an active subscription whose tier has campaign limit L other
\* than -1, check_scheduling_conflicts reports a campaign-limit conflict
\* exactly when the owner has at least L Active campaigns; with limit -1 it
\* reports none.
C19_QuotaAtLimit ==
    (Checked /\ OwnerTier # "none") =>
        IF PRICING_TIERS[OwnerTier] = -1 THEN ~QuotaReported
        ELSE QuotaReported <=> ActiveOfOwner >= PRICING_TIERS[OwnerTier]

\* The owner is on the basic tier and has exactly as many Active campaigns
\* as the tier allows: the conflict is reported.
C19_Witness ==
    /\ Checked /\ OwnerTier = "basic"
    /\ ActiveOfOwner = PRICING_TIERS.basic
    /\ QuotaReported

\* The two dicts have the same value under key k, or both have none.
SameValue(a, b, k) ==
    \/ ~Has(a, k) /\ ~Has(b, k)
    \/ Has(a, k) /\ Has(b, k) /\ a[k] = b[k]

\* C20: for a proposed Recurring trigger, check_scheduling_conflicts reports
\* an overlap with another campaign exactly when that campaign belongs to the
\* same owner, is Active, and has a stored Recurring trigger with the same
\* interval_type and interval_value.
C20_OverlapIffIdentical ==
    (Checked /\ probe.cfg.type = "recurring") =>
        \A o \in DOMAIN probe.camps :
            ([kind |-> "Schedule overlaps with campaign", n |-> o] \in probe.conflicts)
            <=> /\ o # probe.c
                /\ probe.camps[o].user_id = probe.camps[probe.c].user_id
                /\ probe.camps[o].status = "active"
                /\ Has(probe.camps[o].config, "trigger")
                /\ Has(probe.camps[o].config.trigger, "type")
                /\ probe.camps[o].config.trigger.type = "recurring"
                /\ SameValue(probe.cfg, probe.camps[o].config.trigger, "interval_type")
                /\ SameValue(probe.cfg, probe.camps[o].config.trigger, "interval_value")

\* A proposed trigger of every minute against an Active campaign of the same
\* owner whose stored trigger is every minute as well: the overlap with that
\* campaign is reported.
C20_Witness ==
    /\ Checked /\ probe.cfg = CfgInterval("minutes", 1) /\ probe.c = 1
    /\ probe.camps[MaxOwned].status = "active"
    /\ probe.camps[MaxOwned].config = [trigger |-> CfgInterval("minutes", 1)]
    /\ [kind |-> "Schedule overlaps with campaign", n |-> MaxOwned] \in probe.conflicts
    /\ [kind |-> "Schedule overlaps with campaign", n |-> MaxOwned + 1] \notin probe.conflicts

\* C21: a schedule request whose configuration has validation errors is
\* answered 400 (or 404) and leaves the job table and the campaign as they
\* were, with force=true as well; a request of the owner with a valid
\* configuration and conflicts is answered 409 without force, and with force
\* it goes on to schedule_campaign, whose job is then in the job table.
C21_ForceBypassesConflictsOnly ==
    [][ last'.op = "schedule" =>
          LET u == probe'.u
              c == probe'.c
              cfg == probe'.cfg
          IN /\ validate_trigger_config(cfg) # << >> =>
                   (last'.ret \in {"400", "404"} /\ jobs' = jobs /\ campaigns' = campaigns)
             /\ (/\ Owned(u, c)
                 /\ validate_trigger_config(cfg) = << >>
                 /\ check_scheduling_conflicts(campaigns, subscriptions, c, cfg) # {}) =>
                   IF probe'.force
                   THEN /\ last'.ret = BuildTrigger(cfg, now).ret
                        /\ last'.ret = "job" =>
                              \E j \in jobs' : j.id = JobId(c) /\ j.args = cfg
                   ELSE last'.ret = "409" /\ jobs' = jobs ]_vars

\* A forced request went through although its trigger overlaps the trigger
\* of another Active campaign of the owner: its job is registered.
C21_Witness ==
    /\ last.op = "schedule" /\ last.ret = "job"
    /\ probe.fn = "schedule_campaign_endpoint" /\ probe.force
    /\ check_scheduling_conflicts(campaigns, subscriptions, probe.c, probe.cfg) # {}
    /\ \E j \in jobs : j.id = JobId(probe.c) /\ j.args = probe.cfg

\* C22: a record that is already in the table changes its status only from
\* running to completed or failed; a record enters the table as pending, and
\* the runner's record is marked running, with started_at stamped, in the
\* same uninterrupted stretch of _execute_campaign that inserted it as
\* pending; no record is removed.
C22_StatusOrder ==
    [][ /\ Len(executions') >= Len(executions)
        /\ \A i \in 1..Len(executions') :
              IF i <= Len(executions)
              THEN executions'[i].status # executions[i].status =>
                      /\ executions[i].status = "running"
                      /\ executions'[i].status \in {"completed", "failed"}
              ELSE LET inserted == NewExecution(executions'[i].campaign_id,
                                                executions'[i].triggered_by, now)
                   IN /\ inserted.status = "pending"
                      /\ \/ executions'[i] = inserted
                         \/ /\ executions'[i] = MarkRunning(inserted, now)
                            /\ executions'[i].status = "running"
                            /\ executions'[i].started_at = now ]_vars

\* A record of a recurring fire that went from running to completed.
C22_Witness ==
    /\ last.op = "completed"
    /\ executions[last.id].triggered_by = "recurring"
    /\ executions[last.id].status = "completed"
    /\ executions[last.id].started_at <= executions[last.id].completed_at

\* C23: an execution record whose status is completed or failed keeps that
\* status in every step of the system.
C23_TerminalStatusKept ==
    [][ \A i \in 1..Len(executions) :
          executions[i].status \in {"completed", "failed"} =>
              executions'[i].status = executions[i].status ]_vars

\* C24: a fire of a Condition trigger with a false clause inserts the
\* execution record of the fire as pending, leaves it there, and starts no run
\* of the campaign action.
C24_SkippedFireStaysPending ==
    [][ (last'.op = "fire" /\ last'.ret = "conditions_not_met") =>
          /\ Len(executions') = Len(executions) + 1
          /\ executions'[Len(executions')].status = "pending"
          /\ runs' = runs ]_vars

\* C25: when the campaign action raised, _execute_campaign reports the error
\* to the tracker with category CAMPAIGN_EXECUTION_ERROR and the context
\* {campaign_id, trigger_config}, and returns normally, whether the tracker's
\* store can be reached or not.
C25_RunnerReturnsNormally ==
    (probe.fn = "_execute_campaign" /\ last.op = "failed") =>
        /\ probe.outcome = "returned"
        /\ probe.category = "CAMPAIGN_EXECUTION_ERROR"
        /\ probe.context = [campaign_id |-> last.c,
                            trigger_config |-> [type |-> executions[last.id].triggered_by]]

\* C26: the alert of a track_error call is raised only when the errors of
\* its category tracked during the last 60 seconds number at least
\* CRITICAL_ERROR_THRESHOLD.
C26_AlertCountsLastMinute ==
    (probe.fn = "track_error" /\ probe.alert) =>
        ErrorsSince(probe.tracked, probe.category, probe.clock - 60)
            >= CRITICAL_ERROR_THRESHOLD

\* C27: a job whose Recurring configuration carries start_date and end_date
\* runs its campaign only at times from start_date to end_date.
C27_FiresWithinBounds ==
    [][ \A job \in jobs :
          (/\ last'.op = "fire" /\ last'.c = job.id[2] /\ last'.ret = "run"
           /\ job.next_run_time <= now
           /\ Has(job.args, "start_date") /\ Has(job.args, "end_date")) =>
              /\ job.args.start_date.at <= now
              /\ now <= job.args.end_date.at ]_vars

\* C28: a schedule_campaign call that raises leaves the job table as it was;
\* the job the campaign had before the call is still registered.
C28_FailedScheduleKeepsJobs ==
    [][ (last'.op = "schedule" /\ last'.ret = "raised") => jobs' = jobs ]_vars

\* C29: a schedule request answered 404, 400 or 409 leaves every campaign
\* row (status, trigger type, trigger configuration) and the job table as
\* they were before the request.
C29_RejectedRequestChangesNothing ==
    [][ (last'.op = "schedule" /\ last'.ret \in {"404", "400", "409"}) =>
          /\ campaigns' = campaigns
          /\ jobs' = jobs ]_vars

\* A request with activate set, refused for a conflict while another
\* campaign is armed: the campaign is still a draft without a trigger.
C29_Witness ==
    /\ last.op = "schedule" /\ last.ret = "409"
    /\ probe.fn = "schedule_campaign_endpoint" /\ probe.activate /\ ~probe.force
    /\ jobs # {}
    /\ campaigns[probe.c].status = "draft"
    /\ campaigns[probe.c].trigger_config = EmptyDict

\* C30: for an owner without an active subscription check_scheduling_conflicts
\* reports no campaign-limit conflict, whatever the number of the owner's
\* Active campaigns.
C30_NoSubscriptionNoQuota ==
    (Checked /\ OwnerTier = "none") => ~QuotaReported

\* The owner has no subscription and more Active campaigns than any limited
\* tier allows; no campaign-limit conflict is reported.
C30_Witness ==
    /\ Checked /\ OwnerTier = "none"
    /\ \A tier \in DOMAIN PRICING_TIERS : ActiveOfOwner > PRICING_TIERS[tier]
    /\ ~QuotaReported

====
